---- MODULE Spec2Model ----
(***************************************************************************)
(* A model of testmachine (src/testmachine/testmachine.py): the named      *)
(* stack (VarStack), the execution context (RunContext), and the search /  *)
(* prune / minimize / annotate engine of TestMachine with its run().       *)
(*                                                                         *)
(* A call returns a record [ctx, exc, result]: the context after the call, *)
(* the exception it raised ("none" when it returned) and the returned      *)
(* value wrapped in a tuple (<<>> for None).                               *)
(***************************************************************************)
EXTENDS Integers, Sequences, FiniteSets, TLC

VARIABLES
    \* ---- VarStack / RunContext calls made by a client -------------------
    context,        \* the RunContext the client works on
    scopes,         \* per stack name: how many freeze() scopes are active
    reopened,       \* per stack name: an inner scope exited, an outer is active
    lastCall,       \* the last call made: [op, stack, arg]
    lastExc,        \* the exception the last call raised, or "none"
    lastResult      \* what the last call returned, in a tuple

stackVars == <<context, scopes, reopened, lastCall, lastExc, lastResult>>

VARIABLES
    \* ---- TestMachine.minimize_failing_program ----------------------------
    m_pc,           \* "idle", "call", "for", "returned", "AssertionError"
    m_program,      \* the argument of the call
    current_best,
    m_i,            \* the index the for loop is at
    edit,           \* the last edit made
    pruned_edit,    \* the last candidate tested
    m_accepted,     \* the reductions adopted in this call
    m_result,       \* what the call returned
    m_round,        \* 1: the first call, 2: the call on the first call's result
    m_first         \* what the first call returned

minVars == <<m_pc, m_program, current_best, m_i, edit, pruned_edit,
             m_accepted, m_result, m_round, m_first>>

VARIABLES
    \* ---- TestMachine.find_failing_program --------------------------------
    n_iters, prog_length, good_enough,   \* the TestMachine's settings
    languages,      \* the operations its language generates
    s_pc,           \* "idle", "outer", "inner", "returned", "NoFailingProgram"
    s_iter,         \* the iterations of the outer loop started
    examples_found,
    best_example,   \* <<>> for None, else <<program>>
    s_program,      \* program, the trial's operations so far
    s_context,      \* context, the trial's RunContext
    s_result,       \* the program returned
    invocations,    \* the invoke() calls made
    failing         \* the programs of the trials that failed

searchVars == <<n_iters, prog_length, good_enough, languages, s_pc, s_iter,
                examples_found, best_example, s_program, s_context, s_result,
                invocations, failing>>

VARIABLES
    \* ---- TestMachine.annotate_program -------------------------------------
    a_pc,           \* "idle", "call", "for", "returned"
    a_program,      \* the argument of the call
    a_context,      \* context
    a_results,      \* results, the ProgramSteps made so far
    a_k             \* the position in a_program the for loop has reached

annVars == <<a_pc, a_program, a_context, a_results, a_k>>

VARIABLES
    \* ---- TestMachine.run -------------------------------------------------
    r_pc,           \* "idle", "search", "minimize", "annotate", "render",
                    \* "returned", "raised" (an exception left run)
    r_k,            \* the step of annotated the rendering loop has reached
    r_message,      \* TRUE once the NoFailingProgram message was printed
    r_statements,   \* the statements printed
    r_traceback,    \* the exception whose traceback was printed, or "none"
    r_sanity,       \* "none", or how the last run_program(minimal) ended:
                    \* "failed", "passed"
    flaky_raises    \* the system under test: whether the operation whose
                    \* outcome depends on it raises when invoked now

runVars == <<r_pc, r_k, r_message, r_statements, r_traceback, r_sanity,
             flaky_raises>>

vars == <<stackVars, minVars, searchVars, annVars, runVars>>

\* ---- bounds of the model ------------------------------------------------
MaxDepth == 2       \* values on one stack
MaxVar == 2         \* symbolic names drawn from one context
MaxLog == 1         \* logged events after which the client resets tracking
MaxNest == 2        \* freeze scopes nested on one stack
MaxArgs == 2        \* entries of an argspec
MaxProgram == 4     \* operations of a program handed to the minimizer
MaxIters == 3       \* n_iters
MaxProgLength == 3  \* prog_length
MaxGoodEnough == 3  \* good_enough
MaxAnnotated == 3   \* operations of a program handed to annotate_program
MaxRun == 2         \* n_iters, prog_length, good_enough of a machine that is run

StackNames == {"A", "B"}
Freezable == {"A"}    \* the stacks the client freezes
Values == {0, 1}

\* ---- results of a call ----------------------------------------------------
Ret(ctx, result) == [ctx |-> ctx, exc |-> "none", result |-> result]
Raise(ctx, exc) == [ctx |-> ctx, exc |-> exc, result |-> <<>>]

Front(s) == SubSeq(s, 1, Len(s) - 1)
Last(s) == s[Len(s)]

\* ---- VarStack -------------------------------------------------------------
VarStack(name) ==
    [name |-> name, data |-> <<>>, names |-> <<>>, frozen |-> FALSE]

\* TRUE when the assertion passes
integrity_check(st) == Len(st.data) = Len(st.names)

\* the exception modification() raises, or "none"
modification(st) == IF st.frozen THEN "FrozenVarStack" ELSE "none"

\* ---- RunContext -----------------------------------------------------------
RunContext ==
    [varstacks |-> [n \in {} |-> VarStack(n)],
     var_index |-> 0,
     values_read |-> <<>>,
     values_written |-> <<>>]

reset_tracking(ctx) ==
    [ctx EXCEPT !.values_read = <<>>, !.values_written = <<>>]

\* newvar: the context with the counter advanced, and the name "t<n>"
newvar(ctx) ==
    LET c == [ctx EXCEPT !.var_index = @ + 1]
    IN  Ret(c, <<"t" \o ToString(c.var_index)>>)

on_read(ctx, var) == [ctx EXCEPT !.values_read = Append(@, var)]

on_write(ctx, var) == [ctx EXCEPT !.values_written = Append(@, var)]

\* varstack(name): the context with the stack created if it was missing
varstack(ctx, name) ==
    IF name \in DOMAIN ctx.varstacks
    THEN ctx
    ELSE [ctx EXCEPT !.varstacks =
            [n \in (DOMAIN ctx.varstacks) \cup {name} |->
                IF n = name THEN VarStack(name) ELSE ctx.varstacks[n]]]

\* ---- VarStack methods, on stack s of ctx (s is in ctx.varstacks) ----------
pop(ctx, s) ==
    LET st == ctx.varstacks[s] IN
    IF modification(st) # "none" THEN Raise(ctx, modification(st))
    ELSE IF ~integrity_check(st) THEN Raise(ctx, "AssertionError")
    ELSE IF Len(st.data) = 0 THEN Raise(ctx, "IndexError")
    ELSE LET result == Last(st.data)
             c1 == [ctx EXCEPT !.varstacks[s].data = Front(@)]
             v == Last(st.names)
             c2 == [c1 EXCEPT !.varstacks[s].names = Front(@)]
         IN  Ret(on_read(c2, v), <<result>>)

\* push that appends the value before it asks whether the stack is frozen
push_append_before_check(ctx, s, head) ==
    LET st == ctx.varstacks[s]
        c1 == [ctx EXCEPT !.varstacks[s].data = Append(@, head)]
    IN
    IF modification(st) # "none" THEN Raise(c1, modification(st))
    ELSE IF ~integrity_check(st) THEN Raise(c1, "AssertionError")
    ELSE LET nv == newvar(c1)
             v == nv.result[1]
             c2 == [nv.ctx EXCEPT !.varstacks[s].names = Append(@, v)]
         IN  Ret(on_write(c2, v), <<>>)

push(ctx, s, head) ==
    LET st == ctx.varstacks[s] IN
    IF modification(st) # "none" THEN Raise(ctx, modification(st))
    ELSE IF ~integrity_check(st) THEN Raise(ctx, "AssertionError")
    ELSE LET c1 == [ctx EXCEPT !.varstacks[s].data = Append(@, head)]
             nv == newvar(c1)
             v == nv.result[1]
             c2 == [nv.ctx EXCEPT !.varstacks[s].names = Append(@, v)]
         IN  Ret(on_write(c2, v), <<>>)

\* dup that duplicates the name and forgets the value
dup_names_only(ctx, s) ==
    LET st == ctx.varstacks[s] IN
    IF modification(st) # "none" THEN Raise(ctx, modification(st))
    ELSE IF ~integrity_check(st) THEN Raise(ctx, "AssertionError")
    ELSE IF Len(st.names) = 0 THEN Raise(ctx, "IndexError")
    ELSE Ret([ctx EXCEPT !.varstacks[s].names = Append(@, Last(st.names))], <<>>)

dup(ctx, s) ==
    LET st == ctx.varstacks[s] IN
    IF modification(st) # "none" THEN Raise(ctx, modification(st))
    ELSE IF ~integrity_check(st) THEN Raise(ctx, "AssertionError")
    ELSE IF Len(st.names) = 0 THEN Raise(ctx, "IndexError")
    ELSE LET c1 == [ctx EXCEPT !.varstacks[s].names = Append(@, Last(st.names))]
             c2 == [c1 EXCEPT !.varstacks[s].data = Append(@, Last(st.data))]
         IN  Ret(c2, <<>>)

\* peek(index): index >= 0 counts from the top; names[-1 - index]
peek(ctx, s, index) ==
    LET st == ctx.varstacks[s] IN
    IF ~integrity_check(st) THEN Raise(ctx, "AssertionError")
    ELSE IF index >= Len(st.names) THEN Raise(ctx, "IndexError")
    ELSE Ret(on_read(ctx, st.names[Len(st.names) - index]),
             <<st.data[Len(st.data) - index]>>)

has(ctx, s, count) ==
    LET st == ctx.varstacks[s] IN
    IF ~integrity_check(st) THEN Raise(ctx, "AssertionError")
    ELSE Ret(ctx, <<Len(st.data) >= count>>)

\* freeze(): entering the scope, and leaving it (the finally clause)
freeze_enter(ctx, s) == [ctx EXCEPT !.varstacks[s].frozen = TRUE]

\* a scope left without the finally clause: an exception skips the reset
freeze_exit_no_finally(ctx, s, how) ==
    IF how = "normal" THEN [ctx EXCEPT !.varstacks[s].frozen = FALSE] ELSE ctx

freeze_exit(ctx, s, how) == [ctx EXCEPT !.varstacks[s].frozen = FALSE]

\* ---- RunContext.read ------------------------------------------------------
\* seen[a]: how often a occurs among the first k entries of argspec
\* a read that never counts: every entry peeks the top
seen_never(argspec, k, a) == 0

seen(argspec, k, a) == Cardinality({j \in 1..k : argspec[j] = a})

RECURSIVE read_loop(_, _, _, _)
read_loop(ctx, argspec, k, result) ==
    IF k > Len(argspec) THEN Ret(ctx, result)
    ELSE LET a == argspec[k]
             c == varstack(ctx, a)
             r == peek(c, a, seen(argspec, k - 1, a))
         IN  IF r.exc # "none" THEN Raise(r.ctx, r.exc)
             ELSE read_loop(r.ctx, argspec, k + 1, Append(result, r.result[1]))

read(ctx, argspec) == read_loop(ctx, argspec, 1, <<>>)

\* ---- the operation library (operations.py) ------------------------------
\* Every operation works on stack "A".  push0/push1: PushRandom instances that
\* drew 0 and 1; dup, drop: Dup and Drop; div: BinaryOperator dividing the
\* second value by the top one, no precondition; gdiv: the same with the
\* precondition "divisor # 0"; check: Check that the top value is not 0.
\* One more operation, flaky, touches no stack and calls a function of the
\* system under test that raises or not depending on that system's state.
Ops == {"push0", "push1", "dup", "drop", "div", "gdiv", "check"}

OpStack == "A"

BinaryOperator_invoke(ctx, s) ==
    LET r1 == pop(varstack(ctx, s), s) IN
    IF r1.exc # "none" THEN Raise(r1.ctx, r1.exc)
    ELSE LET r2 == pop(r1.ctx, s) IN
         IF r2.exc # "none" THEN Raise(r2.ctx, r2.exc)
         ELSE IF r1.result[1] = 0 THEN Raise(r2.ctx, "ZeroDivisionError")
         ELSE push(r2.ctx, s, r2.result[1] \div r1.result[1])

Check_invoke(ctx, s) ==
    LET r == read(ctx, <<s>>) IN
    IF r.exc # "none" THEN Raise(r.ctx, r.exc)
    ELSE IF r.result[1] # 0 THEN Ret(r.ctx, <<>>)
    ELSE Raise(r.ctx, "CheckFailed")

\* operation.invoke(context)
Invoke(op, ctx) ==
    CASE op = "push0" -> push(varstack(ctx, OpStack), OpStack, 0)
      [] op = "push1" -> push(varstack(ctx, OpStack), OpStack, 1)
      [] op = "dup" -> dup(varstack(ctx, OpStack), OpStack)
      [] op = "drop" -> pop(varstack(ctx, OpStack), OpStack)
      [] op \in {"div", "gdiv"} -> BinaryOperator_invoke(ctx, OpStack)
      [] op = "check" -> Check_invoke(ctx, OpStack)
      [] op = "flaky" -> IF flaky_raises THEN Raise(ctx, "Flaky")
                         ELSE Ret(ctx, <<>>)

Requires(op) ==
    CASE op \in {"push0", "push1", "flaky"} -> 0
      [] op \in {"dup", "drop", "check"} -> 1
      [] op \in {"div", "gdiv"} -> 2

\* operation.applicable(context)
Applicable(op, ctx) ==
    LET c == varstack(ctx, OpStack) IN
    /\ has(c, OpStack, Requires(op)).result[1]
    /\ op = "gdiv" => Last(c.varstacks[OpStack].data) # 0

\* ---- TestMachine: replaying a program ---------------------------------------
RECURSIVE run_loop(_, _, _)
run_loop(program, k, ctx) ==
    IF k > Len(program) THEN Ret(ctx, <<>>)
    ELSE LET r == Invoke(program[k], ctx) IN
         IF r.exc # "none" THEN Raise(r.ctx, r.exc)
         ELSE run_loop(program, k + 1, r.ctx)

run_program(program) == run_loop(program, 1, RunContext)

program_fails(program) == run_program(program).exc # "none"

\* a pruning that never asks applicable()
RECURSIVE prune_loop_unguarded(_, _, _, _)
prune_loop_unguarded(program, k, ctx, acc) ==
    IF k > Len(program) THEN acc
    ELSE LET operation == program[k]
             r == Invoke(operation, ctx)
             kept == [acc EXCEPT !.results = Append(@, operation),
                                 !.invoked = Append(@, operation)]
         IN  IF r.exc # "none" THEN kept
             ELSE prune_loop_unguarded(program, k + 1, r.ctx, kept)

\* a pruning that goes on with the next operation after an invoke() raised
RECURSIVE prune_loop_no_break(_, _, _, _)
prune_loop_no_break(program, k, ctx, acc) ==
    IF k > Len(program) THEN acc
    ELSE LET operation == program[k]
             asked == [acc EXCEPT !.checked = Append(@, operation)]
         IN  IF ~Applicable(operation, ctx)
             THEN prune_loop_no_break(program, k + 1, ctx, asked)
             ELSE LET r == Invoke(operation, ctx)
                      kept == [asked EXCEPT !.results = Append(@, operation),
                                            !.invoked = Append(@, operation)]
                  IN  prune_loop_no_break(program, k + 1, r.ctx, kept)

\* prune_program, with what it did: the operations it asked applicable() of
\* and the operations it invoked
RECURSIVE prune_loop(_, _, _, _)
prune_loop(program, k, ctx, acc) ==
    IF k > Len(program) THEN acc
    ELSE LET operation == program[k]
             asked == [acc EXCEPT !.checked = Append(@, operation)]
         IN  IF ~Applicable(operation, ctx)
             THEN prune_loop(program, k + 1, ctx, asked)
             ELSE LET r == Invoke(operation, ctx)
                      kept == [asked EXCEPT !.results = Append(@, operation),
                                            !.invoked = Append(@, operation)]
                  IN  IF r.exc # "none" THEN kept
                      ELSE prune_loop(program, k + 1, r.ctx, kept)

prune_trace(program) ==
    prune_loop(program, 1, RunContext,
               [results |-> <<>>, invoked |-> <<>>, checked |-> <<>>])

prune_program(program) == prune_trace(program).results

\* del seq[i], i counted from 0
Del(seq, i) == SubSeq(seq, 1, i) \o SubSeq(seq, i + 2, Len(seq))

\* an iteration that adopts the pruned candidate without testing it
minimize_iteration_untested(best, i) ==
    LET edit1 == Del(best, i)
        pruned1 == prune_program(edit1)
    IN  [accepted |-> TRUE, current_best |-> pruned1, i |-> 0,
         edit |-> edit1, pruned_edit |-> pruned1]

\* an iteration after which the for loop goes on instead of starting again
minimize_iteration_no_restart(best, i) ==
    LET edit1 == Del(best, i)
        pruned1 == prune_program(edit1)
        edit2 == Del(edit1, i)
        pruned2 == prune_program(edit2)
        Adopt(e, p) == [accepted |-> TRUE, current_best |-> p, i |-> i + 1,
                        edit |-> e, pruned_edit |-> p]
        Keep(e, p) == [accepted |-> FALSE, current_best |-> best, i |-> i + 1,
                       edit |-> e, pruned_edit |-> p]
    IN  IF program_fails(pruned1) THEN Adopt(edit1, pruned1)
        ELSE IF i < Len(edit1)
             THEN IF program_fails(pruned2) THEN Adopt(edit2, pruned2)
                  ELSE Keep(edit2, pruned2)
             ELSE Keep(edit1, pruned1)

\* an iteration that ends the pass when its candidates do not fail
minimize_iteration_gives_up(best, i) ==
    LET edit1 == Del(best, i)
        pruned1 == prune_program(edit1)
        edit2 == Del(edit1, i)
        pruned2 == prune_program(edit2)
        Adopt(e, p) == [accepted |-> TRUE, current_best |-> p, i |-> 0,
                        edit |-> e, pruned_edit |-> p]
        Keep(e, p) == [accepted |-> FALSE, current_best |-> best,
                       i |-> Len(best), edit |-> e, pruned_edit |-> p]
    IN  IF program_fails(pruned1) THEN Adopt(edit1, pruned1)
        ELSE IF i < Len(edit1)
             THEN IF program_fails(pruned2) THEN Adopt(edit2, pruned2)
                  ELSE Keep(edit2, pruned2)
             ELSE Keep(edit1, pruned1)

\* an iteration that forgets "del edit[i]": its candidate is the pruned copy
\* of current_best
minimize_iteration_no_delete(best, i) ==
    LET edit1 == best
        pruned1 == prune_program(edit1)
        edit2 == Del(edit1, i)
        pruned2 == prune_program(edit2)
        Adopt(e, p) == [accepted |-> TRUE, current_best |-> p, i |-> 0,
                        edit |-> e, pruned_edit |-> p]
        Keep(e, p) == [accepted |-> FALSE, current_best |-> best, i |-> i + 1,
                       edit |-> e, pruned_edit |-> p]
    IN  IF program_fails(pruned1) THEN Adopt(edit1, pruned1)
        ELSE IF i < Len(edit1)
             THEN IF program_fails(pruned2) THEN Adopt(edit2, pruned2)
                  ELSE Keep(edit2, pruned2)
             ELSE Keep(edit1, pruned1)

\* one iteration of the for loop of minimize_failing_program, at index i:
\* the loop's state after it
minimize_iteration(best, i) ==
    LET edit1 == Del(best, i)
        pruned1 == prune_program(edit1)
        edit2 == Del(edit1, i)
        pruned2 == prune_program(edit2)
        Adopt(e, p) == [accepted |-> TRUE, current_best |-> p, i |-> 0,
                        edit |-> e, pruned_edit |-> p]
        Keep(e, p) == [accepted |-> FALSE, current_best |-> best, i |-> i + 1,
                       edit |-> e, pruned_edit |-> p]
    IN  IF program_fails(pruned1) THEN Adopt(edit1, pruned1)
        ELSE IF i < Len(edit1)
             THEN IF program_fails(pruned2) THEN Adopt(edit2, pruned2)
                  ELSE Keep(edit2, pruned2)
             ELSE Keep(edit1, pruned1)

\* the operations of the programs handed to the minimizer
MinOps == Ops \ {"dup"}

Programs == UNION {[1..n -> MinOps] : n \in 0..MaxProgram}

IdleMin ==
    /\ m_pc = "idle"
    /\ m_program = <<>>
    /\ current_best = <<>>
    /\ m_i = 0
    /\ edit = <<>>
    /\ pruned_edit = <<>>
    /\ m_accepted = 0
    /\ m_result = <<>>
    /\ m_round = 1
    /\ m_first = <<>>

InitMin ==
    /\ m_pc = "call"
    /\ m_program \in Programs
    /\ current_best = <<>>
    /\ m_i = 0
    /\ edit = <<>>
    /\ pruned_edit = <<>>
    /\ m_accepted = 0
    /\ m_result = <<>>
    /\ m_round = 1
    /\ m_first = <<>>

\* assert self.program_fails(program); current_best = program
MinCall ==
    /\ m_pc = "call"
    /\ IF program_fails(m_program)
       THEN /\ m_pc' = "for"
            /\ current_best' = m_program
       ELSE /\ m_pc' = "AssertionError"
            /\ UNCHANGED current_best
    /\ m_i' = 0
    /\ m_accepted' = 0
    /\ UNCHANGED <<m_program, edit, pruned_edit, m_result, m_round, m_first>>
    /\ UNCHANGED <<stackVars, searchVars, annVars, runVars>>

\* the body of the for loop at index m_i; an adopted candidate breaks out of
\* the for loop and the while loop starts it again
MinIteration ==
    /\ m_pc = "for"
    /\ m_i < Len(current_best)
    /\ LET n == minimize_iteration(current_best, m_i) IN
        /\ current_best' = n.current_best
        /\ m_i' = n.i
        /\ edit' = n.edit
        /\ pruned_edit' = n.pruned_edit
        /\ m_accepted' = m_accepted + (IF n.accepted THEN 1 ELSE 0)
    /\ UNCHANGED <<m_pc, m_program, m_result, m_round, m_first>>
    /\ UNCHANGED <<stackVars, searchVars, annVars, runVars>>

\* the else clause of the for loop: return current_best
MinReturn ==
    /\ m_pc = "for"
    /\ m_i >= Len(current_best)
    /\ m_pc' = "returned"
    /\ m_result' = current_best
    /\ UNCHANGED <<m_program, current_best, m_i, edit, pruned_edit,
                   m_accepted, m_round, m_first>>
    /\ UNCHANGED <<stackVars, searchVars, annVars, runVars>>

\* the caller hands the returned program to minimize_failing_program again
MinAgain ==
    /\ m_pc = "returned"
    /\ m_round = 1
    /\ m_round' = 2
    /\ m_first' = m_result
    /\ m_program' = m_result
    /\ m_pc' = "call"
    /\ m_accepted' = 0
    /\ UNCHANGED <<current_best, m_i, edit, pruned_edit, m_result>>
    /\ UNCHANGED <<stackVars, searchVars, annVars, runVars>>

NextMin ==
    \/ MinCall
    \/ MinIteration
    \/ MinReturn
    \/ MinAgain

\* ---- TestMachine.find_failing_program ----------------------------------
\* the languages a TestMachine is given: what language.generate() may produce
LanguageSets ==
    {{"push0", "push1"}, {"push0", "push1", "div"}, {"push1", "dup", "drop", "check"}}

\* for _ in xrange(self.n_iters)
more_trials_one_more(iter, n) == iter <= n

more_trials(iter, n) == iter < n

\* the except clause counting only the trials that improve the best example
on_failure_counts_improvements(found, best, prog, enough) ==
    LET better == best = <<>> \/ Len(prog) < Len(best[1])
        found1 == IF better THEN found + 1 ELSE found
        best1 == IF better THEN <<prog>> ELSE best
    IN  [examples_found |-> found1, best_example |-> best1,
         pc |-> IF found1 >= enough THEN "returned" ELSE "outer"]

\* the except clause keeping the first example whatever comes later
on_failure_keeps_first(found, best, prog, enough) ==
    LET found1 == found + 1
        best1 == IF best = <<>> THEN <<prog>> ELSE best
    IN  [examples_found |-> found1, best_example |-> best1,
         pc |-> IF found1 >= enough THEN "returned" ELSE "outer"]

\* the except clause: the counter, the best example and where control goes
on_failure(found, best, prog, enough) ==
    LET found1 == found + 1
        best1 == IF best = <<>> \/ Len(prog) < Len(best[1])
                 THEN <<prog>> ELSE best
    IN  [examples_found |-> found1, best_example |-> best1,
         pc |-> IF found1 >= enough THEN "returned" ELSE "outer"]

IdleSearch ==
    /\ n_iters = 0
    /\ prog_length = 0
    /\ good_enough = 1
    /\ languages = {}
    /\ s_pc = "idle"
    /\ s_iter = 0
    /\ examples_found = 0
    /\ best_example = <<>>
    /\ s_program = <<>>
    /\ s_context = RunContext
    /\ s_result = <<>>
    /\ invocations = 0
    /\ failing = {}

\* a TestMachine whose language is one of sets and whose settings are in
\* iters, lengths and enoughs, find_failing_program called
InitSearchIn(sets, iters, lengths, enoughs) ==
    /\ n_iters \in iters
    /\ prog_length \in lengths
    /\ good_enough \in enoughs
    /\ languages \in sets
    /\ s_pc = "outer"
    /\ s_iter = 0
    /\ examples_found = 0
    /\ best_example = <<>>
    /\ s_program = <<>>
    /\ s_context = RunContext
    /\ s_result = <<>>
    /\ invocations = 0
    /\ failing = {}

InitSearch ==
    InitSearchIn(LanguageSets, 0..MaxIters, 0..MaxProgLength, 1..MaxGoodEnough)

\* an iteration of the outer loop starts: program = [], context = RunContext()
SearchTrial ==
    /\ s_pc = "outer"
    /\ more_trials(s_iter, n_iters)
    /\ s_iter' = s_iter + 1
    /\ s_program' = <<>>
    /\ s_context' = RunContext
    /\ s_pc' = "inner"
    /\ UNCHANGED <<n_iters, prog_length, good_enough, languages, examples_found,
                   best_example, s_result, invocations, failing>>
    /\ UNCHANGED <<stackVars, minVars, annVars, runVars>>

\* an iteration of the inner loop: generate, append, invoke
SearchStep(operation) ==
    /\ s_pc = "inner"
    /\ Len(s_program) < prog_length
    /\ LET r == Invoke(operation, s_context)
           prog == Append(s_program, operation)
           f == on_failure(examples_found, best_example, prog, good_enough)
       IN  /\ s_program' = prog
           /\ s_context' = r.ctx
           /\ invocations' = invocations + 1
           /\ IF r.exc # "none"
              THEN /\ examples_found' = f.examples_found
                   /\ best_example' = f.best_example
                   /\ s_pc' = f.pc
                   /\ s_result' = IF f.pc = "returned" THEN f.best_example[1]
                                  ELSE s_result
                   /\ failing' = failing \cup {prog}
              ELSE UNCHANGED <<examples_found, best_example, s_pc, s_result,
                               failing>>
    /\ UNCHANGED <<n_iters, prog_length, good_enough, languages, s_iter>>
    /\ UNCHANGED <<stackVars, minVars, annVars, runVars>>

\* the inner loop ran prog_length times without a failure
SearchTrialDone ==
    /\ s_pc = "inner"
    /\ Len(s_program) >= prog_length
    /\ s_pc' = "outer"
    /\ UNCHANGED <<n_iters, prog_length, good_enough, languages, s_iter,
                   examples_found, best_example, s_program, s_context, s_result,
                   invocations, failing>>
    /\ UNCHANGED <<stackVars, minVars, annVars, runVars>>

\* after the outer loop: raise NoFailingProgram, or return best_example
SearchEnd ==
    /\ s_pc = "outer"
    /\ ~more_trials(s_iter, n_iters)
    /\ IF best_example = <<>>
       THEN /\ s_pc' = "NoFailingProgram"
            /\ UNCHANGED s_result
       ELSE /\ s_pc' = "returned"
            /\ s_result' = best_example[1]
    /\ UNCHANGED <<n_iters, prog_length, good_enough, languages, s_iter,
                   examples_found, best_example, s_program, s_context,
                   invocations, failing>>
    /\ UNCHANGED <<stackVars, minVars, annVars, runVars>>

NextSearch ==
    \/ SearchTrial
    \/ \E operation \in languages : SearchStep(operation)
    \/ SearchTrialDone
    \/ SearchEnd

\* ---- TestMachine.annotate_program ------------------------------------------
ProgramStep(definitions, arguments, operation) ==
    [definitions |-> definitions, arguments |-> arguments,
     operation |-> operation]

\* a loop body that goes on with the next operation after an invoke() raised
annotate_iteration_no_break(program, k, ctx, results) ==
    LET op == program[k]
        r == Invoke(op, reset_tracking(ctx))
        had_error == r.exc # "none"
        step == ProgramStep(IF had_error THEN <<>> ELSE r.ctx.values_written,
                            r.ctx.values_read, op)
    IN  [context |-> r.ctx, results |-> Append(results, step), k |-> k + 1,
         pc |-> "for"]

\* a loop body that does not reset the logs before it invokes the operation
annotate_iteration_no_reset(program, k, ctx, results) ==
    LET op == program[k]
        r == Invoke(op, ctx)
        had_error == r.exc # "none"
        step == ProgramStep(IF had_error THEN <<>> ELSE r.ctx.values_written,
                            r.ctx.values_read, op)
    IN  [context |-> r.ctx, results |-> Append(results, step), k |-> k + 1,
         pc |-> IF had_error THEN "returned" ELSE "for"]

\* the body of the for loop, for operation k of program: the context and the
\* results after it, and where control goes (the break leads to the return)
annotate_iteration(program, k, ctx, results) ==
    LET op == program[k]
        r == Invoke(op, reset_tracking(ctx))
        had_error == r.exc # "none"
        step == ProgramStep(IF had_error THEN <<>> ELSE r.ctx.values_written,
                            r.ctx.values_read, op)
    IN  [context |-> r.ctx, results |-> Append(results, step), k |-> k + 1,
         pc |-> IF had_error THEN "returned" ELSE "for"]

AnnPrograms == UNION {[1..n -> Ops] : n \in 0..MaxAnnotated}

IdleAnn ==
    /\ a_pc = "idle"
    /\ a_program = <<>>
    /\ a_context = RunContext
    /\ a_results = <<>>
    /\ a_k = 1

InitAnn ==
    /\ a_pc = "call"
    /\ a_program \in AnnPrograms
    /\ a_context = RunContext
    /\ a_results = <<>>
    /\ a_k = 1

\* context = RunContext(); results = []
AnnCall ==
    /\ a_pc = "call"
    /\ a_context' = RunContext
    /\ a_results' = <<>>
    /\ a_k' = 1
    /\ a_pc' = "for"
    /\ UNCHANGED a_program
    /\ UNCHANGED <<stackVars, minVars, searchVars, runVars>>

\* the body of the for loop, for the next operation of the program
AnnIteration ==
    /\ a_pc = "for"
    /\ a_k <= Len(a_program)
    /\ LET n == annotate_iteration(a_program, a_k, a_context, a_results) IN
        /\ a_context' = n.context
        /\ a_results' = n.results
        /\ a_k' = n.k
        /\ a_pc' = n.pc
    /\ UNCHANGED a_program
    /\ UNCHANGED <<stackVars, minVars, searchVars, runVars>>

\* the for loop is through the program: return results
AnnReturn ==
    /\ a_pc = "for"
    /\ a_k > Len(a_program)
    /\ a_pc' = "returned"
    /\ UNCHANGED <<a_program, a_context, a_results, a_k>>
    /\ UNCHANGED <<stackVars, minVars, searchVars, runVars>>

NextAnn ==
    \/ AnnCall
    \/ AnnIteration
    \/ AnnReturn

\* ---- TestMachine.run -------------------------------------------------------
\* the languages of the machines that are run
RunLanguageSets == {{"push0", "check"}, {"push1", "flaky"}}

\* operation.compile(arguments, results): the statements of one step
Compile(operation, arguments, results) ==
    <<[operation |-> operation, arguments |-> arguments, results |-> results]>>

\* a handler of NoFailingProgram that prints the message and goes on
run_search_ended_no_return(spc) ==
    [pc |-> "minimize", message |-> spc = "NoFailingProgram"]

\* after find_failing_program: "except NoFailingProgram" prints the message
\* and returns; otherwise run goes on to minimize first_try
run_search_ended(spc) ==
    IF spc = "NoFailingProgram"
    THEN [pc |-> "returned", message |-> TRUE]
    ELSE [pc |-> "minimize", message |-> FALSE]

\* the last try statement of run, r being how run_program(minimal) ended: an
\* exception of the program is caught and its traceback printed; when the
\* program does not raise, "assert False" raises AssertionError inside the
\* same try, "except Exception" catches it and its traceback is printed
sanity_check(r) ==
    IF r.exc # "none"
    THEN [sanity |-> "failed", traceback |-> r.exc, pc |-> "returned"]
    ELSE [sanity |-> "passed", traceback |-> "AssertionError",
          pc |-> "returned"]

IdleRun ==
    /\ r_pc = "idle"
    /\ r_k = 1
    /\ r_message = FALSE
    /\ r_statements = <<>>
    /\ r_traceback = "none"
    /\ r_sanity = "none"
    /\ flaky_raises = TRUE

\* run() called: it is in find_failing_program
InitRun ==
    /\ r_pc = "search"
    /\ r_k = 1
    /\ r_message = FALSE
    /\ r_statements = <<>>
    /\ r_traceback = "none"
    /\ r_sanity = "none"
    /\ flaky_raises \in BOOLEAN

\* find_failing_program ended: the except clause, or
\* minimal = self.minimize_failing_program(first_try) is called
RunSearched ==
    /\ r_pc = "search"
    /\ s_pc \in {"returned", "NoFailingProgram"}
    /\ LET n == run_search_ended(s_pc) IN
        /\ r_pc' = n.pc
        /\ r_message' = n.message
        /\ IF n.pc = "minimize"
           THEN m_pc' = "call" /\ m_program' = s_result
           ELSE UNCHANGED <<m_pc, m_program>>
    /\ UNCHANGED <<current_best, m_i, edit, pruned_edit, m_accepted, m_result,
                   m_round, m_first>>
    /\ UNCHANGED <<r_k, r_statements, r_traceback, r_sanity, flaky_raises>>
    /\ UNCHANGED <<stackVars, searchVars, annVars>>

\* minimize_failing_program ended: annotated = self.annotate_program(minimal)
\* is called, or the AssertionError of the minimizer leaves run
RunMinimized ==
    /\ r_pc = "minimize"
    /\ m_pc \in {"returned", "AssertionError"}
    /\ IF m_pc = "returned"
       THEN r_pc' = "annotate" /\ a_pc' = "call" /\ a_program' = m_result
       ELSE r_pc' = "raised" /\ UNCHANGED <<a_pc, a_program>>
    /\ UNCHANGED <<a_context, a_results, a_k>>
    /\ UNCHANGED <<r_k, r_message, r_statements, r_traceback, r_sanity,
                   flaky_raises>>
    /\ UNCHANGED <<stackVars, minVars, searchVars>>

\* annotate_program returned: the rendering loop starts
RunAnnotated ==
    /\ r_pc = "annotate"
    /\ a_pc = "returned"
    /\ r_pc' = "render"
    /\ r_k' = 1
    /\ UNCHANGED <<r_message, r_statements, r_traceback, r_sanity, flaky_raises>>
    /\ UNCHANGED <<stackVars, minVars, searchVars, annVars>>

\* for step in annotated: compile the step and print its statements
RunRender ==
    /\ r_pc = "render"
    /\ r_k <= Len(a_results)
    /\ LET step == a_results[r_k] IN
        r_statements' = r_statements \o
            Compile(step.operation, step.arguments, step.definitions)
    /\ r_k' = r_k + 1
    /\ UNCHANGED <<r_pc, r_message, r_traceback, r_sanity, flaky_raises>>
    /\ UNCHANGED <<stackVars, minVars, searchVars, annVars>>

\* the rendering loop is through: the minimal program is run once more
RunSanity ==
    /\ r_pc = "render"
    /\ r_k > Len(a_results)
    /\ LET n == sanity_check(run_program(m_result)) IN
        /\ r_sanity' = n.sanity
        /\ r_traceback' = n.traceback
        /\ r_pc' = n.pc
    /\ UNCHANGED <<r_k, r_message, r_statements, flaky_raises>>
    /\ UNCHANGED <<stackVars, minVars, searchVars, annVars>>

\* the system under test changes its state while run() is at work
EnvChange ==
    /\ r_pc \in {"search", "minimize", "annotate", "render"}
    /\ "flaky" \in languages
    /\ flaky_raises' = ~flaky_raises
    /\ UNCHANGED <<r_pc, r_k, r_message, r_statements, r_traceback, r_sanity>>
    /\ UNCHANGED <<stackVars, minVars, searchVars, annVars>>

NextRun ==
    \/ SearchTrial
    \/ \E operation \in languages : SearchStep(operation)
    \/ SearchTrialDone
    \/ SearchEnd
    \/ RunSearched
    \/ MinCall
    \/ MinIteration
    \/ MinReturn
    \/ RunMinimized
    \/ AnnCall
    \/ AnnIteration
    \/ AnnReturn
    \/ RunAnnotated
    \/ RunRender
    \/ RunSanity
    \/ EnvChange

\* ---- a client calling the stacks of one context -------------------------
Call(op, s, arg) == [op |-> op, stack |-> s, arg |-> arg]

Argspecs == UNION {[1..n -> StackNames] : n \in 0..MaxArgs}

InitStack ==
    /\ context = RunContext
    /\ scopes = [s \in StackNames |-> 0]
    /\ reopened = [s \in StackNames |-> FALSE]
    /\ lastCall = Call("init", "", <<>>)
    /\ lastExc = "none"
    /\ lastResult = <<>>

Returned(r, call) ==
    /\ context' = r.ctx
    /\ lastCall' = call
    /\ lastExc' = r.exc
    /\ lastResult' = r.result
    /\ UNCHANGED <<scopes, reopened, minVars, searchVars, annVars, runVars>>

DoPush(s, v) ==
    /\ varstack(context, s).var_index < MaxVar
    /\ Len(varstack(context, s).varstacks[s].data) < MaxDepth
    /\ Len(context.values_written) < MaxLog
    /\ Returned(push(varstack(context, s), s, v), Call("push", s, <<>>))

DoPop(s) ==
    /\ Len(context.values_read) < MaxLog
    /\ Returned(pop(varstack(context, s), s), Call("pop", s, <<>>))

DoDup(s) ==
    /\ Len(varstack(context, s).varstacks[s].data) < MaxDepth
    /\ Returned(dup(varstack(context, s), s), Call("dup", s, <<>>))

DoPeek(s, index) ==
    /\ Len(context.values_read) < MaxLog
    /\ Returned(peek(varstack(context, s), s, index), Call("peek", s, <<>>))

DoHas(s, count) ==
    Returned(has(varstack(context, s), s, count), Call("has", s, <<>>))

DoRead(argspec) ==
    /\ Len(context.values_read) < MaxLog
    /\ Returned(read(context, argspec), Call("read", "", argspec))

DoResetTracking ==
    Returned(Ret(reset_tracking(context), <<>>), Call("reset_tracking", "", <<>>))

\* with stack.freeze(): ... entered
DoFreeze(s) ==
    /\ scopes[s] < MaxNest
    /\ context' = freeze_enter(varstack(context, s), s)
    /\ scopes' = [scopes EXCEPT ![s] = @ + 1]
    /\ UNCHANGED <<reopened, minVars, searchVars, annVars, runVars>>
    /\ lastCall' = Call("freeze", s, <<>>)
    /\ lastExc' = "none"
    /\ lastResult' = <<>>

\* the innermost freeze scope of s is left: how = "normal" when its body
\* ended, "exception" when an exception raised in the body unwinds through it
DoUnfreeze(s, how) ==
    /\ scopes[s] > 0
    /\ how = "exception" => lastExc # "none"
    /\ context' = freeze_exit(context, s, how)
    /\ scopes' = [scopes EXCEPT ![s] = @ - 1]
    /\ reopened' = [reopened EXCEPT ![s] = (scopes[s] > 1)]
    /\ lastCall' = Call("unfreeze", s, <<how>>)
    /\ lastExc' = IF how = "exception" THEN lastExc ELSE "none"
    /\ lastResult' = <<>>
    /\ UNCHANGED <<minVars, searchVars, annVars, runVars>>

\* a client working on one stack, freezing it in nested scopes
NextStack ==
    \/ \E s \in Freezable, v \in Values : DoPush(s, v)
    \/ \E s \in Freezable : DoPop(s)
    \/ \E s \in Freezable : DoDup(s)
    \/ \E s \in Freezable, index \in 0..MaxDepth : DoPeek(s, index)
    \/ \E s \in Freezable, count \in 0..MaxDepth : DoHas(s, count)
    \/ DoResetTracking
    \/ \E s \in Freezable : DoFreeze(s)
    \/ \E s \in Freezable, how \in {"normal", "exception"} : DoUnfreeze(s, how)

InitSpec == InitStack /\ IdleMin /\ IdleSearch /\ IdleAnn /\ IdleRun

Spec == InitSpec /\ [][NextStack]_vars

\* a client filling several stacks and reading them through the context
NextRead ==
    \/ \E s \in StackNames, v \in Values : DoPush(s, v)
    \/ \E s \in StackNames : DoPop(s)
    \/ \E s \in StackNames : DoDup(s)
    \/ \E argspec \in Argspecs : DoRead(argspec)
    \/ DoResetTracking

SpecRead == InitSpec /\ [][NextRead]_vars

InitSpecMin == InitStack /\ InitMin /\ IdleSearch /\ IdleAnn /\ IdleRun

SpecMin == InitSpecMin /\ [][NextMin]_vars

InitSpecSearch == InitStack /\ IdleMin /\ InitSearch /\ IdleAnn /\ IdleRun

SpecSearch == InitSpecSearch /\ [][NextSearch]_vars

InitSpecAnn == InitStack /\ IdleMin /\ IdleSearch /\ InitAnn /\ IdleRun

SpecAnn == InitSpecAnn /\ [][NextAnn]_vars

InitSpecRun ==
    /\ InitStack
    /\ IdleMin
    /\ InitSearchIn(RunLanguageSets, 0..MaxRun, 0..MaxRun, 1..MaxRun)
    /\ IdleAnn
    /\ InitRun

SpecRun == InitSpecRun /\ [][NextRun]_vars

\* ==== the properties ========================================================

Mutators == {"push", "pop", "dup"}

\* C1: after every push, pop and dup call on a VarStack, the failing ones
\* (frozen stack, empty stack) included, len(data) = len(names), and the
\* integrity assertion of no call fires.
C1_StackIntegrity ==
    /\ \A s \in DOMAIN context.varstacks :
          Len(context.varstacks[s].data) = Len(context.varstacks[s].names)
    /\ lastExc # "AssertionError"

\* a rejected pop on a frozen stack that holds two values
C1_Witness ==
    /\ lastCall.op = "pop"
    /\ lastExc = "FrozenVarStack"
    /\ "A" \in DOMAIN context.varstacks
    /\ Len(context.varstacks["A"].data) = 2
    /\ Len(context.varstacks["A"].names) = 2

\* C2: in a single freeze scope (no scope nested in it) every push, pop and
\* dup fails with FrozenVarStack; once no scope is active, however the scope
\* was left, frozen is false and push, pop and dup are not rejected as frozen.
C2_FreezeScope ==
    \A s \in DOMAIN context.varstacks :
        LET st == context.varstacks[s]
            mutated == lastCall.op \in Mutators /\ lastCall.stack = s
        IN  /\ (scopes[s] = 1 /\ ~reopened[s]) =>
                  /\ st.frozen
                  /\ mutated => lastExc = "FrozenVarStack"
            /\ scopes[s] = 0 =>
                  /\ ~st.frozen
                  /\ mutated => lastExc # "FrozenVarStack"

\* the scope was left by the FrozenVarStack a rejected call raised in it
C2_Witness ==
    /\ lastCall = Call("unfreeze", "A", <<"exception">>)
    /\ lastExc = "FrozenVarStack"
    /\ scopes["A"] = 0
    /\ ~context.varstacks["A"].frozen
    /\ Len(context.varstacks["A"].data) > 0

\* the value at depth d (0 = top) of stack s, in a tuple; <<>> when s is
\* missing or holds no more than d values
ValueAtDepth(ctx, s, d) ==
    IF s \in DOMAIN ctx.varstacks /\ d < Len(ctx.varstacks[s].data)
    THEN <<ctx.varstacks[s].data[Len(ctx.varstacks[s].data) - d]>>
    ELSE <<>>

\* how often argspec[k] occurs before position k
Before(argspec, k) ==
    Cardinality({j \in 1..(k - 1) : argspec[j] = argspec[k]})

\* C7: read(argspec) returns, for each entry, the value of the named stack at
\* the depth given by the number of earlier entries naming the same stack, and
\* changes the data and names of no stack (a stack it creates is empty).
C7_ReadDepths ==
    [][lastCall'.op = "read" =>
         /\ \A s \in DOMAIN context.varstacks :
               /\ context'.varstacks[s].data = context.varstacks[s].data
               /\ context'.varstacks[s].names = context.varstacks[s].names
         /\ \A s \in (DOMAIN context'.varstacks) \ (DOMAIN context.varstacks) :
               /\ context'.varstacks[s].data = <<>>
               /\ context'.varstacks[s].names = <<>>
         /\ lastExc' = "none" =>
               /\ Len(lastResult') = Len(lastCall'.arg)
               /\ \A k \in 1..Len(lastCall'.arg) :
                     <<lastResult'[k]>> =
                        ValueAtDepth(context, lastCall'.arg[k],
                                     Before(lastCall'.arg, k))
    ]_vars

\* read(["A", "A"]) on A = [0, 1] (1 on top) returned (1, 0)
C7_Witness ==
    /\ lastCall = Call("read", "", <<"A", "A">>)
    /\ lastExc = "none"
    /\ context.varstacks["A"].data = <<0, 1>>
    /\ lastResult = <<1, 0>>

\* a is b with elements left out, the order kept
RECURSIVE IsSubsequence(_, _)
IsSubsequence(a, b) ==
    IF Len(a) = 0 THEN TRUE
    ELSE IF Len(b) = 0 THEN FALSE
    ELSE IF a[1] = b[1] THEN IsSubsequence(Tail(a), Tail(b))
    ELSE IsSubsequence(a, Tail(b))

\* the context operation k of program meets when program is replayed
ContextAt(program, k) == run_program(SubSeq(program, 1, k - 1)).ctx

\* every operation of program is applicable when the replay reaches it
AllApplicable(program) ==
    \A k \in 1..Len(program) : Applicable(program[k], ContextAt(program, k))

\* C3: while minimize_failing_program loops, and when it returns, current_best
\* fails, is no longer than the argument and is a subsequence of it; the
\* returned program is that current_best.
C3_MinimizeKeepsFailing ==
    /\ m_pc \in {"for", "returned"} =>
          /\ program_fails(current_best)
          /\ Len(current_best) <= Len(m_program)
          /\ IsSubsequence(current_best, m_program)
    /\ m_pc = "returned" => m_result = current_best

\* a first call returned a program of three operations, shorter than its argument
C3_Witness ==
    /\ m_pc = "returned"
    /\ m_round = 1
    /\ m_accepted > 0
    /\ Len(m_result) = 3
    /\ Len(m_result) < Len(m_program)

\* C4: the program prune_program made of an edit holds only operations that
\* were applicable when the replay reached them, and prune_program invoked
\* no other operation.
C4_PrunedApplicable ==
    m_pc \in {"for", "returned"} =>
        /\ AllApplicable(pruned_edit)
        /\ LET tr == prune_trace(edit) IN
              /\ tr.results = pruned_edit
              /\ AllApplicable(tr.invoked)

\* an edit of which prune_program dropped an operation and kept two
C4_Witness ==
    /\ m_pc = "for"
    /\ Len(pruned_edit) >= 2
    /\ Len(pruned_edit) < Len(edit)
    /\ ~AllApplicable(edit)

\* C5: the program minimize_failing_program returns holds no operation that is
\* inapplicable at its position in a replay of that program.
C5_ReturnedApplicable ==
    m_pc = "returned" => AllApplicable(m_result)

\* C6: minimize_failing_program called on the program it returned adopts no
\* reduction and returns that same program (its assertion does not fire).
C6_Idempotent ==
    m_round = 2 =>
        /\ m_pc # "AssertionError"
        /\ m_accepted = 0
        /\ m_pc = "returned" => m_result = m_first

\* the second call returned, on a program the first call had shortened to three
C6_Witness ==
    /\ m_round = 2
    /\ m_pc = "returned"
    /\ Len(m_first) = 3
    /\ m_result = m_first

\* C8: when no invocation failed, find_failing_program ends by raising
\* NoFailingProgram, after exactly n_iters trials that invoked prog_length
\* operations each; every trial runs on a context of its own, created fresh.
C8_Exhaustion ==
    /\ (s_pc \in {"returned", "NoFailingProgram"} /\ failing = {}) =>
          /\ s_pc = "NoFailingProgram"
          /\ s_iter = n_iters
          /\ invocations = n_iters * prog_length
    /\ s_pc = "inner" => s_context = run_program(s_program).ctx

\* three trials of two operations each, none failing, with division in the language
C8_Witness ==
    /\ s_pc = "NoFailingProgram"
    /\ n_iters = 3
    /\ prog_length = 2
    /\ invocations = 6
    /\ "div" \in languages

\* the step being taken is an iteration of the inner loop whose invoke() raises
FailingStep ==
    /\ s_pc = "inner"
    /\ Len(s_program') = Len(s_program) + 1
    /\ Invoke(Last(s_program'), s_context).exc # "none"

\* C9: the failure counter grows by one with every failing trial and with
\* nothing else; the failing step ends its trial; the search returns the best
\* example at once when the counter reaches good_enough, and no trial runs
\* with the counter there; after n_iters trials with a failure among them the
\* best example is returned.
C9_FailureCounter ==
    /\ [](s_pc \in {"outer", "inner"} => examples_found < good_enough)
    /\ [][/\ FailingStep =>
                /\ examples_found' = examples_found + 1
                /\ s_pc' # "inner"
                /\ examples_found' >= good_enough =>
                      (s_pc' = "returned" /\ s_result' = best_example'[1])
                /\ examples_found' < good_enough =>
                      (s_pc' = "outer" /\ s_iter' = s_iter)
          /\ ~FailingStep => examples_found' = examples_found
          /\ (s_pc = "outer" /\ s_iter >= n_iters /\ examples_found >= 1) =>
                (s_pc' = "returned" /\ s_result' = best_example[1])
       ]_vars

\* the search returned on a failing trial that did not improve the best example
C9_Witness ==
    /\ s_pc = "returned"
    /\ examples_found = 2
    /\ good_enough = 2
    /\ s_program \in failing
    /\ Len(s_program) > Len(best_example[1])

\* C10: the program returned is the program of a failing trial of this call,
\* ends with the operation that raised after operations that did not, has
\* between 1 and prog_length operations, and no failing trial of this call had
\* a shorter program.
C10_BestExample ==
    s_pc = "returned" =>
        /\ s_result \in failing
        /\ Len(s_result) \in 1..prog_length
        /\ program_fails(s_result)
        /\ ~program_fails(Front(s_result))
        /\ \A p \in failing : Len(p) >= Len(s_result)

\* a later, shorter failing trial replaced the first example
C10_Witness ==
    /\ s_pc = "returned"
    /\ examples_found >= 2
    /\ Len(s_result) = 2
    /\ s_program = s_result
    /\ \E p \in failing : Len(p) = 3

\* C18: with freeze scopes nested on one stack, push, pop and dup fail with
\* FrozenVarStack wherever at least one scope is active; after the inner scope
\* is left while the outer one is active the stack is still frozen.
C18_NestedFreeze ==
    \A s \in DOMAIN context.varstacks :
        scopes[s] >= 1 =>
            /\ context.varstacks[s].frozen
            /\ (lastCall.op \in Mutators /\ lastCall.stack = s) =>
                  lastExc = "FrozenVarStack"

\* C19: a push, pop, dup or peek call that raises (frozen stack, empty stack,
\* index beyond the size) leaves the data and names of every stack, the name
\* counter and the values_read / values_written logs as they were.
C19_FailedCallNoEffect ==
    [][(lastCall'.op \in {"push", "pop", "dup", "peek"} /\ lastExc' # "none") =>
          /\ context'.var_index = context.var_index
          /\ context'.values_read = context.values_read
          /\ context'.values_written = context.values_written
          /\ DOMAIN context.varstacks \subseteq DOMAIN context'.varstacks
          /\ \A s \in DOMAIN context'.varstacks :
                context'.varstacks[s] =
                    IF s \in DOMAIN context.varstacks
                    THEN context.varstacks[s]
                    ELSE VarStack(s)
      ]_vars

\* a push rejected on a frozen stack that holds one value
C19_Witness ==
    /\ lastCall.op = "push"
    /\ lastExc = "FrozenVarStack"
    /\ "A" \in DOMAIN context.varstacks
    /\ context.varstacks["A"].names = <<"t1">>
    /\ context.varstacks["A"].data = <<1>>
    /\ context.var_index = 1

\* the step being taken is an iteration of the for loop of the minimizer
IterationStep == m_pc = "for" /\ m_pc' = "for"

\* C13: every candidate the minimizer tests is prune_program of the current
\* best with exactly one operation, the one at the loop index, deleted; a
\* rejected candidate moves the loop to the next index, a failing one is
\* adopted at once and the pass starts again at index 0.
C13_SingleDeletion ==
    [][IterationStep =>
          /\ edit' = Del(current_best, m_i)
          /\ pruned_edit' = prune_program(edit')
          /\ IF program_fails(pruned_edit')
             THEN current_best' = pruned_edit' /\ m_i' = 0
             ELSE current_best' = current_best /\ m_i' = m_i + 1
      ]_vars

\* the operations of input that are applicable when the replay of the kept
\* ones reaches them, from operation k on
RECURSIVE WhenReached(_, _, _)
WhenReached(input, k, ctx) ==
    IF k > Len(input) THEN <<>>
    ELSE IF Applicable(input[k], ctx)
         THEN <<input[k]>> \o WhenReached(input, k + 1, Invoke(input[k], ctx).ctx)
         ELSE WhenReached(input, k + 1, ctx)

\* C14: prune_program returns a subsequence of its input, in order; when an
\* operation it invokes raises, that operation ends the result, the operations
\* before it did not raise, and no later operation of the input is asked
\* applicable(), invoked or kept; when none raises the result is exactly the
\* operations of the input that were applicable when reached.
C14_PruneResult ==
    LET t == prune_trace(edit)
        R == t.results
        n == Len(t.checked)
    IN  /\ pruned_edit = R
        /\ IsSubsequence(R, edit)
        /\ t.invoked = R
        /\ n <= Len(edit)
        /\ t.checked = SubSeq(edit, 1, n)
        /\ R = WhenReached(t.checked, 1, RunContext)
        /\ IF program_fails(R)
           THEN /\ Last(R) = edit[n]
                /\ ~program_fails(Front(R))
           ELSE n = Len(edit)

\* prune_program stopped at the second of three operations, which raised
C14_Witness ==
    /\ m_pc = "for"
    /\ Len(edit) = 3
    /\ Len(prune_trace(edit).checked) = 2
    /\ pruned_edit = SubSeq(edit, 1, 2)
    /\ program_fails(pruned_edit)

\* C16: the program minimize_failing_program returns is locally irreducible:
\* whichever single operation is deleted from it, the pruned rest does not fail.
C16_LocallyIrreducible ==
    m_pc = "returned" =>
        \A i \in 0..(Len(m_result) - 1) :
            ~program_fails(prune_program(Del(m_result, i)))

\* a first call returned two operations after adopting a reduction
C16_Witness ==
    /\ m_pc = "returned"
    /\ m_round = 1
    /\ m_accepted >= 1
    /\ Len(m_result) = 2
    /\ program_fails(m_result)

\* C17: minimize_failing_program terminates: every iteration either adopts a
\* candidate strictly shorter than the current best it replaces or moves the
\* loop index one further within the unchanged current best, so the pair
\* (len(current_best), len(current_best) - i) falls with every iteration and
\* cannot fall forever; a call adopts at most len(program) reductions.
C17_Terminates ==
    /\ [][(IterationStep /\ current_best' # current_best) =>
             /\ Len(current_best') < Len(current_best)
             /\ m_accepted' = m_accepted + 1
         ]_vars
    /\ [][(IterationStep /\ current_best' = current_best) =>
             (m_accepted' = m_accepted /\ m_i' = m_i + 1)
         ]_vars
    /\ [](m_pc = "for" =>
             /\ m_accepted + Len(current_best) <= Len(m_program)
             /\ m_i <= Len(current_best))

\* a call returned after adopting two reductions of a program of four
C17_Witness ==
    /\ m_pc = "returned"
    /\ m_accepted = 2
    /\ Len(m_program) = 4
    /\ Len(m_result) < Len(m_program)

\* the operations of the records annotate_program has made
RecordedOps == [k \in 1..Len(a_results) |-> a_results[k].operation]

\* how the invocation of operation k of a_program ends in a replay of a_program
InvocationAt(k) == Invoke(a_program[k], reset_tracking(ContextAt(a_program, k)))

\* the records are one per invoked operation, in order: the operations of the
\* argument up to and with the first that raises; no record but the last one
\* belongs to a raising invocation, and the record of one holds no definitions
AnnotatedPrefix ==
    LET n == Len(a_results) IN
    /\ n <= Len(a_program)
    /\ RecordedOps = SubSeq(a_program, 1, n)
    /\ \A k \in 1..(n - 1) : InvocationAt(k).exc = "none"
    /\ \A k \in 1..n :
          InvocationAt(k).exc # "none" => a_results[k].definitions = <<>>
    /\ a_pc = "returned" =>
          IF program_fails(a_program)
          THEN n >= 1 /\ InvocationAt(n).exc # "none"
          ELSE n = Len(a_program)

\* C11 as stated: annotate_program returns one ProgramStep per invoked
\* operation, in order, for the operations up to and with the first that
\* raises; only the last record can belong to a raising invocation, it has
\* empty definitions, and the last record marks a failure (empty definitions,
\* the only mark a ProgramStep has) exactly when its invocation raised.
C11_FailureMark ==
    a_pc \in {"for", "returned"} =>
        /\ AnnotatedPrefix
        /\ (a_pc = "returned" /\ a_results # <<>>) =>
              (Last(a_results).definitions = <<>>
                  <=> InvocationAt(Len(a_results)).exc # "none")

\* C11 amended: as stated, but of the mark only one direction: the record of
\* a raising invocation has empty definitions, and so a record with
\* definitions belongs to an invocation that did not raise; a record without
\* definitions may belong to either.
C11_AnnotatedPrefix ==
    a_pc \in {"for", "returned"} =>
        /\ AnnotatedPrefix
        /\ \A k \in 1..Len(a_results) :
              a_results[k].definitions # <<>> => InvocationAt(k).exc = "none"

\* annotate_program returned two records for a program of three operations,
\* the second one raised
C11_Witness ==
    /\ a_pc = "returned"
    /\ Len(a_program) = 3
    /\ Len(a_results) = 2
    /\ a_results[1].definitions # <<>>
    /\ a_results[2].definitions = <<>>
    /\ program_fails(SubSeq(a_program, 1, 2))

\* the elements of a sequence
Range(seq) == {seq[k] : k \in 1..Len(seq)}

\* C20: in the records of annotate_program, every name in the arguments of a
\* record is in the definitions of a strictly earlier record or was written
\* in that same step; no name is in the definitions of two records; the
\* arguments and definitions of a record are the reads and writes of its own
\* step, the logs being reset before each step.
C20_NamesDefinedBeforeUse ==
    a_pc \in {"for", "returned"} =>
        /\ Len(a_results) <= Len(a_program)
        /\ \A k \in 1..Len(a_results) :
              LET r == InvocationAt(k) IN
              /\ a_results[k].arguments = r.ctx.values_read
              /\ a_results[k].definitions =
                    (IF r.exc # "none" THEN <<>> ELSE r.ctx.values_written)
              /\ \A name \in Range(a_results[k].arguments) :
                    \/ \E j \in 1..(k - 1) :
                          name \in Range(a_results[j].definitions)
                    \/ name \in Range(r.ctx.values_written)
        /\ \A j, k \in 1..Len(a_results) :
              j # k => Range(a_results[j].definitions)
                          \cap Range(a_results[k].definitions) = {}

\* the third step divided the values of the two names the first two defined
C20_Witness ==
    /\ a_pc = "returned"
    /\ Len(a_results) = 3
    /\ a_results[1].definitions = <<"t1">>
    /\ a_results[2].definitions = <<"t2">>
    /\ a_results[3].arguments = <<"t2", "t1">>
    /\ a_results[3].definitions = <<"t3">>

\* C12: once the sanity re-execution of the minimized program ended without
\* raising, run has ended with an error that reaches its caller; the
\* assertion is not caught and printed like the failure of the program.
C12_SanityFatal ==
    r_sanity = "passed" => (r_pc = "raised" /\ r_traceback = "none")

\* the statements of the steps k..Len(steps) of steps, in order
RECURSIVE StatementsFrom(_, _)
StatementsFrom(steps, k) ==
    IF k > Len(steps) THEN <<>>
    ELSE Compile(steps[k].operation, steps[k].arguments, steps[k].definitions)
            \o StatementsFrom(steps, k + 1)

\* C15: run does its phases in the order search, minimize, annotate, render,
\* sanity re-execution: the minimizer is called only on what the search
\* returned, annotate_program only on what the minimizer returned, statements
\* are printed only of the annotated steps, in step order, and the program is
\* run again only after all of them; when the search raises NoFailingProgram
\* the message is printed and none of the later phases happens.
C15_PhaseOrder ==
    /\ r_pc = "search" => (m_pc = "idle" /\ a_pc = "idle")
    /\ m_pc # "idle" => (s_pc = "returned" /\ m_program = s_result)
    /\ r_pc = "minimize" => a_pc = "idle"
    /\ a_pc # "idle" => (m_pc = "returned" /\ a_program = m_result)
    /\ r_pc \in {"search", "minimize", "annotate"} =>
          (r_statements = <<>> /\ r_sanity = "none")
    /\ r_statements # <<>> => (a_pc = "returned" /\ r_pc \in {"render", "returned"})
    /\ r_pc = "render" =>
          /\ r_k <= Len(a_results) + 1
          /\ r_statements = StatementsFrom(SubSeq(a_results, 1, r_k - 1), 1)
          /\ r_sanity = "none"
    /\ r_sanity # "none" =>
          /\ a_pc = "returned"
          /\ r_statements = StatementsFrom(a_results, 1)
          /\ r_traceback # "none"
    /\ r_traceback # "none" => r_sanity # "none"
    /\ r_message <=> (s_pc = "NoFailingProgram" /\ r_pc # "search")
    /\ s_pc = "NoFailingProgram" =>
          /\ r_pc \in {"search", "returned"}
          /\ m_pc = "idle"
          /\ a_pc = "idle"
          /\ r_statements = <<>>
          /\ r_sanity = "none"
          /\ r_traceback = "none"

\* run printed the statements of two steps and the traceback of the failure
C15_Witness ==
    /\ r_pc = "returned"
    /\ Len(r_statements) = 2
    /\ r_sanity = "failed"
    /\ r_traceback = "CheckFailed"
    /\ ~r_message

====
